---- MODULE Spec2Model ----
(***************************************************************************)
(* Model of exploration/scripts/ingest_dvf.py: the DVF ingestion pipeline  *)
(* main() runs as five sequential stages inside one try block.             *)
(*                                                                         *)
(* Text that the code inspects character by character (resource titles,    *)
(* cell values) is a sequence of one-character strings.  Text that the     *)
(* code only compares for equality (dataset titles, formats, ids, urls)    *)
(* is a TLA+ string.  A JSON object is a function whose DOMAIN is the set  *)
(* of keys that are present.                                               *)
(***************************************************************************)
EXTENDS Integers, Sequences, FiniteSets, TLC

VARIABLES
  pc,          \* position of main(): the stage about to run, or the tail
  year,        \* args.year
  dataset_id,  \* main's local, bound when search_dvf_dataset returns
  url,         \* main's local, bound when get_resource_url returns
  txt_path,    \* main's local, bound when download_and_extract returns
  df,          \* main's local, bound when load_and_transform returns
  exc,         \* the exception propagating out of the try block, or NoExc
  stdout,      \* the lines main() itself printed after the banner
  started,     \* stages called so far, in call order
  returned,    \* stages that returned normally, in return order
  files,       \* names of the files present in raw_dir and at output_path
  response,    \* the response a mocked request is answered with
  csv,         \* content of the extracted text file
  loaded       \* coercion-table columns load_and_transform has assigned

vars == <<pc, year, dataset_id, url, txt_path, df, exc, stdout, started,
          returned, files, response, csv, loaded>>

--------------------------------------------------------------------------
(* Bounds of the model *)

MaxDatasets == 2    \* longest catalog page enumerated
MaxResources == 2   \* longest resource list enumerated
MaxEntries == 2     \* most entries in a downloaded archive
MaxRows == 1        \* most data rows in the extracted file
MaxLen == 2         \* length up to which every cell text is enumerated

--------------------------------------------------------------------------
(* Generic helpers *)

NoExc == "none"
Unbound == "<unbound>"

\* dict.get(key, default)
Get(d, key, default) == IF key \in DOMAIN d THEN d[key] ELSE default

\* All sequences over S of length at most n
SeqsUpTo(S, n) == UNION {[1..k -> S] : k \in 0..n}

\* Python's "sub in text" on strings
Contains(text, sub) ==
  \E i \in 0..(Len(text) - Len(sub)) :
     \A j \in 1..Len(sub) : text[i + j] = sub[j]

DigitChars == <<"0", "1", "2", "3", "4", "5", "6", "7", "8", "9">>

IsDigit(c) == \E d \in 1..10 : DigitChars[d] = c

DigitVal(c) == (CHOOSE d \in 1..10 : DigitChars[d] = c) - 1

\* str(n) for an int n
RECURSIVE NatStr(_)
NatStr(n) == IF n < 10 THEN <<DigitChars[n + 1]>>
             ELSE NatStr(n \div 10) \o <<DigitChars[(n % 10) + 1]>>

str(n) == IF n < 0 THEN <<"-">> \o NatStr(0 - n) ELSE NatStr(n)

\* requests.Response.raise_for_status(): raises HTTPError on 4xx and 5xx
raise_for_status(resp) == resp.status_code >= 400 /\ resp.status_code < 600

\* What a stage function does: return a value or raise
Return(v) == [exc |-> NoExc, value |-> v]
Raise(e) == [exc |-> e, value |-> Unbound]

--------------------------------------------------------------------------
(* search_dvf_dataset *)

TargetTitle == "Demandes de valeurs foncières"

DatasetTitles == {TargetTitle, "Demandes de valeurs foncieres",
                  "DVF geolocalisees"}
DatasetIds == {"id1", "id2"}

\* Dataset records of the catalog: { id, title }
DatasetRecords == [id : DatasetIds, title : DatasetTitles]

\* The response to a failed request (any 4xx or 5xx)
ErrorResponse == [status_code |-> 404, body |-> [message |-> "Not Found"]]

\* Bodies of the search response: with a "data" list, or without the key
CatalogBodies ==
  {[data |-> l, page_size |-> 10] : l \in SeqsUpTo(DatasetRecords, MaxDatasets)}
    \cup {[page_size |-> 10]}

CatalogResponses ==
  [status_code : {200}, body : CatalogBodies] \cup {ErrorResponse}

\* NextDataset comparing titles without regard to accents
RECURSIVE MutNextDataset(_, _)
MutNextDataset(datasets, i) ==
  IF i > Len(datasets) THEN 0
  ELSE IF datasets[i]["title"] \in {TargetTitle, "Demandes de valeurs foncieres"}
       THEN i
  ELSE MutNextDataset(datasets, i + 1)

\* next((d for d in datasets if d["title"] == "..."), None):
\* index of the entry the generator yields first, 0 for None
RECURSIVE NextDataset(_, _)
NextDataset(datasets, i) ==
  IF i > Len(datasets) THEN 0
  ELSE IF datasets[i]["title"] = TargetTitle THEN i
  ELSE NextDataset(datasets, i + 1)

search_dvf_dataset(resp) ==
  IF raise_for_status(resp) THEN Raise("HTTPError")
  ELSE LET datasets == Get(resp.body, "data", <<>>)
           dvf_dataset == NextDataset(datasets, 1)
       IN IF dvf_dataset = 0
          THEN Raise("ValueError: DVF dataset not found")
          ELSE Return(datasets[dvf_dataset]["id"])

--------------------------------------------------------------------------
(* get_resource_url *)

Years == {2022, 2023}

\* Resource titles: one with the year 2023 inside, one that is the year 2022
ResourceTitles ==
  {<<"v", "f">> \o str(2023) \o <<".", "t", "x", "t">>, str(2022)}

ResourceFormats == {"txt.zip", "csv"}
ResourceUrls == {"u1", "u2"}

\* Resource records { title, format, url }; title and format may be absent
ResourceRecords ==
  [title : ResourceTitles, format : ResourceFormats, url : ResourceUrls]
    \cup [format : ResourceFormats, url : ResourceUrls]
    \cup [title : ResourceTitles, url : ResourceUrls]

DatasetBodies ==
  {[resources |-> l] : l \in SeqsUpTo(ResourceRecords, MaxResources)}
    \cup {[id |-> "id1"]}

DatasetResponses ==
  [status_code : {200}, body : DatasetBodies] \cup {ErrorResponse}

\* TargetResource without the test of the format
RECURSIVE MutTargetResource(_, _, _)
MutTargetResource(resources, y, i) ==
  IF i > Len(resources) THEN 0
  ELSE IF Contains(Get(resources[i], "title", <<>>), str(y)) THEN i
  ELSE MutTargetResource(resources, y, i + 1)

\* The for loop over resources: index of the resource at which it breaks,
\* 0 when it runs to the end (target_resource stays None)
RECURSIVE TargetResource(_, _, _)
TargetResource(resources, y, i) ==
  IF i > Len(resources) THEN 0
  ELSE LET r == resources[i]
           title == Get(r, "title", <<>>)
       IN IF Contains(title, str(y)) /\ Get(r, "format", "None") = "txt.zip"
          THEN i
          ELSE TargetResource(resources, y, i + 1)

get_resource_url(resp, y) ==
  IF raise_for_status(resp) THEN Raise("HTTPError")
  ELSE LET resources == Get(resp.body, "resources", <<>>)
           target_resource == TargetResource(resources, y, 1)
       IN IF target_resource = 0
          THEN Raise("ValueError: No data found for year")
          ELSE Return(resources[target_resource]["url"])

--------------------------------------------------------------------------
(* Cell values and tables *)

\* A cell of a DataFrame: text, a missing value, a float, an Int64 or a
\* date.  A float is num / 10^scale with no trailing zero in num when
\* scale > 0; a date is num = year * 10000 + month * 100 + day.
Text(s) == [kind |-> "str", text |-> s, num |-> 0, scale |-> 0]
NA == [kind |-> "NA", text |-> <<>>, num |-> 0, scale |-> 0]
Float(n, sc) == [kind |-> "float", text |-> <<>>, num |-> n, scale |-> sc]
Int64(n) == [kind |-> "Int64", text |-> <<>>, num |-> n, scale |-> 0]
Date(y, m, d) ==
  [kind |-> "date", text |-> <<>>, num |-> y * 10000 + m * 100 + d, scale |-> 0]

\* Series.map: apply f to every cell of a column
MapCol(f(_), col) == [i \in 1..Len(col) |-> f(col[i])]

\* Apply f to every cell of every column of a table
MapTable(f(_), table) == [c \in DOMAIN table |-> MapCol(f, table[c])]

\* pd.read_csv(txt_path, sep="|", dtype=str, keep_default_na=...): every
\* field is loaded as text; with keep_default_na the default NA texts
\* (the empty field among them) are loaded as missing instead
DefaultNaTexts == {<<>>, <<"N", "A">>, <<"n", "a", "n">>}

read_csv(file, keep_default_na) ==
  LET Load(s) == IF keep_default_na /\ s \in DefaultNaTexts THEN NA ELSE Text(s)
  IN MapTable(Load, file)

\* df.replace(old, new) over the whole table
replace(table, old, new) ==
  LET Swap(v) == IF v = old THEN new ELSE v
  IN MapTable(Swap, table)

--------------------------------------------------------------------------
(* Parsing of cell text *)

RECURSIVE DigitsVal(_)
DigitsVal(s) == IF Len(s) = 0 THEN 0
                ELSE DigitsVal(SubSeq(s, 1, Len(s) - 1)) * 10 + DigitVal(s[Len(s)])

AllDigits(s) == \A i \in 1..Len(s) : IsDigit(s[i])

\* Drop the trailing zeros of a decimal fraction: 1.50 = 1.5, 1.0 = 1
RECURSIVE Normal(_, _)
Normal(n, sc) == IF sc > 0 /\ n % 10 = 0 THEN Normal(n \div 10, sc - 1)
                 ELSE Float(n, sc)

\* Positions of character c in s
Positions(s, c) == {i \in 1..Len(s) : s[i] = c}

\* The number a text denotes for pd.to_numeric, NA if it denotes none:
\* an optional sign, digits with at most one decimal point, at least one
\* digit.  (No text of the model carries an exponent, blanks, inf or nan.)
ParseNumber(s) ==
  LET signed == Len(s) > 0 /\ s[1] \in {"-", "+"}
      body == IF signed THEN SubSeq(s, 2, Len(s)) ELSE s
      dots == Positions(body, ".")
      digits == [i \in 1..(Len(body) - Cardinality(dots)) |->
                   body[CHOOSE k \in 1..Len(body) :
                          /\ body[k] # "."
                          /\ Cardinality({j \in 1..k : body[j] # "."}) = i]]
      dot == IF dots = {} THEN Len(body) ELSE CHOOSE k \in dots : TRUE
      mag == Normal(DigitsVal(digits), Len(body) - dot)
  IN IF /\ Cardinality(dots) <= 1
        /\ Len(digits) >= 1
        /\ AllDigits(digits)
     THEN IF signed /\ s[1] = "-"
          THEN Float(0 - mag.num, mag.scale)
          ELSE mag
     ELSE NA

\* pd.to_numeric(col, errors="coerce"): text that is no number becomes
\* missing, a missing value stays missing
to_numeric(col) ==
  LET Coerce(v) == IF v.kind = "str" THEN ParseNumber(v.text) ELSE v
  IN MapCol(Coerce, col)

\* Series.astype("Int64") of a numeric column: raises TypeError ("cannot
\* safely cast non-equivalent float64 to int64") when a value has a
\* fractional part
CastRaises(col) == \E i \in 1..Len(col) : col[i].kind = "float" /\ col[i].scale > 0

astype_Int64(col) ==
  LET Cast(v) == IF v.kind = "float" THEN Int64(v.num) ELSE v
  IN MapCol(Cast, col)

\* Series.str.replace(old, new, regex=False) for one-character old and new
str_replace(col, old, new) ==
  LET Sub(v) == IF v.kind = "str"
                THEN Text([i \in 1..Len(v.text) |->
                             IF v.text[i] = old THEN new ELSE v.text[i]])
                ELSE v
  IN MapCol(Sub, col)

IsLeap(y) == (y % 4 = 0 /\ y % 100 # 0) \/ y % 400 = 0

DaysInMonth(y, m) ==
  IF m = 2 THEN (IF IsLeap(y) THEN 29 ELSE 28)
  ELSE IF m \in {4, 6, 9, 11} THEN 30 ELSE 31

\* The date a text denotes under format "%d/%m/%Y", NA if none: day and
\* month of one or two digits, a year of four digits, a day that exists
ParseDate(s) ==
  LET slashes == Positions(s, "/")
      p1 == CHOOSE k \in slashes : \A j \in slashes : k <= j
      p2 == CHOOSE k \in slashes : \A j \in slashes : k >= j
      dd == SubSeq(s, 1, p1 - 1)
      mm == SubSeq(s, p1 + 1, p2 - 1)
      yy == SubSeq(s, p2 + 1, Len(s))
      d == DigitsVal(dd)
      m == DigitsVal(mm)
      y == DigitsVal(yy)
  IN IF /\ Cardinality(slashes) = 2
        /\ Len(dd) \in {1, 2} /\ AllDigits(dd)
        /\ Len(mm) \in {1, 2} /\ AllDigits(mm)
        /\ Len(yy) = 4 /\ AllDigits(yy)
        /\ y >= 1
        /\ m >= 1 /\ m <= 12
        /\ d >= 1 /\ d <= DaysInMonth(y, m)
     THEN Date(y, m, d)
     ELSE NA

\* pd.to_datetime(col, format="%d/%m/%Y", errors="coerce")
to_datetime(col) ==
  LET Coerce(v) == IF v.kind = "str" THEN ParseDate(v.text) ELSE v
  IN MapCol(Coerce, col)

--------------------------------------------------------------------------
(* load_and_transform *)

\* ColumnOrder without its last key
MutColumnOrder ==
  <<"No disposition", "Date mutation", "Valeur fonciere", "No voie",
    "Code postal", "Code voie", "Code commune", "Code departement",
    "No plan", "Section", "Code type local", "Nombre de lots",
    "Nombre pieces principales", "Surface reelle bati">>

\* The keys of the transformations dict, in insertion order
ColumnOrder ==
  <<"No disposition", "Date mutation", "Valeur fonciere", "No voie",
    "Code postal", "Code voie", "Code commune", "Code departement",
    "No plan", "Section", "Code type local", "Nombre de lots",
    "Nombre pieces principales", "Surface reelle bati", "Surface terrain">>

\* The transformations dict: column name -> semantic type
transformations ==
  [col \in {ColumnOrder[i] : i \in 1..Len(ColumnOrder)} |->
     CASE col \in {"No disposition", "Nombre de lots",
                   "Nombre pieces principales"} -> "int"
       [] col = "Date mutation" -> "date"
       [] col \in {"Valeur fonciere", "Surface reelle bati",
                   "Surface terrain"} -> "float"
       [] OTHER -> "str"]

\* The semantic types the if/elif chain of the loop has a branch for
HandledTypes == {"str", "int", "float", "date"}

\* What the loop does after `loaded` columns have been assigned
Progress(e, table, n) == [exc |-> e, value |-> table, loaded |-> n]

\* CoerceColumn turning the comma into a point in every float column
MutCoerceColumn(table, col) ==
  LET dtype == transformations[col]
  IN IF col \notin DOMAIN table THEN Raise("KeyError")
     ELSE IF dtype = "int"
          THEN IF CastRaises(to_numeric(table[col]))
               THEN Raise("TypeError")
               ELSE Return(astype_Int64(to_numeric(table[col])))
     ELSE IF dtype = "float"
          THEN Return(to_numeric(str_replace(table[col], ",", ".")))
     ELSE IF dtype = "date" THEN Return(to_datetime(table[col]))
     ELSE Return(table[col])

\* One iteration of "for col, dtype in transformations.items()": the new
\* column, or the exception the iteration raises
CoerceColumn(table, col) ==
  LET dtype == transformations[col]
  IN IF col \notin DOMAIN table THEN Raise("KeyError")
     ELSE IF dtype = "str" THEN Return(table[col])
     ELSE IF dtype = "int"
          THEN IF CastRaises(to_numeric(table[col]))
               THEN Raise("TypeError")
               ELSE Return(astype_Int64(to_numeric(table[col])))
     ELSE IF dtype = "float"
          THEN IF col = "Valeur fonciere"
               THEN Return(to_numeric(str_replace(table[col], ",", ".")))
               ELSE Return(to_numeric(table[col]))
     ELSE IF dtype = "date" THEN Return(to_datetime(table[col]))
     ELSE Return(table[col])

\* CoerceFrom skipping a column whose iteration raises
RECURSIVE MutCoerceFrom(_, _)
MutCoerceFrom(table, i) ==
  IF i > Len(ColumnOrder) THEN Progress(NoExc, table, i - 1)
  ELSE LET col == ColumnOrder[i]
           r == CoerceColumn(table, col)
       IN IF r.exc # NoExc THEN MutCoerceFrom(table, i + 1)
          ELSE MutCoerceFrom([table EXCEPT ![col] = r.value], i + 1)

\* The loop from its i-th iteration on
RECURSIVE CoerceFrom(_, _)
CoerceFrom(table, i) ==
  IF i > Len(ColumnOrder) THEN Progress(NoExc, table, i - 1)
  ELSE LET col == ColumnOrder[i]
           r == CoerceColumn(table, col)
       IN IF r.exc # NoExc THEN Progress(r.exc, table, i - 1)
          ELSE CoerceFrom([table EXCEPT ![col] = r.value], i + 1)

\* load_and_transform without the replacement of the empty string
MutLoadAndTransform(file) == CoerceFrom(read_csv(file, FALSE), 1)

load_and_transform(file) ==
  CoerceFrom(replace(read_csv(file, FALSE), Text(<<>>), NA), 1)

--------------------------------------------------------------------------
(* download_and_extract *)

ZipName == "temp_download.zip"

\* What the function leaves behind: its outcome and the files on disk
Left(r, fs) == [exc |-> r.exc, value |-> r.value, files |-> fs]

\* The files extractall has written when it stops before entry k
Extracted(names, k) == {names[i] : i \in 1..(k - 1)}

\* download_and_extract without zip_path.unlink()
MutDownloadAndExtract(resp, fs) ==
  IF raise_for_status(resp) THEN Left(Raise("HTTPError"), fs)
  ELSE LET z == resp.body
           written == fs \cup {ZipName}
       IN IF ~z.valid THEN Left(Raise("BadZipFile"), written)
          ELSE IF Len(z.names) = 0 THEN Left(Raise("IndexError"), written)
          ELSE IF z.fail_at # 0
               THEN Left(Raise("OSError"),
                         written \cup Extracted(z.names, z.fail_at))
          ELSE Left(Return(z.names[1]),
                    written \cup Extracted(z.names, Len(z.names) + 1))

\* body: the downloaded archive.  valid: zipfile can open it; names: its
\* namelist(); fail_at: the entry at which extractall raises, 0 for none
download_and_extract(resp, fs) ==
  IF raise_for_status(resp) THEN Left(Raise("HTTPError"), fs)
  ELSE LET z == resp.body
           written == fs \cup {ZipName}
       IN IF ~z.valid THEN Left(Raise("BadZipFile"), written)
          ELSE IF Len(z.names) = 0 THEN Left(Raise("IndexError"), written)
          ELSE IF z.fail_at # 0
               THEN Left(Raise("OSError"),
                         written \cup Extracted(z.names, z.fail_at))
          ELSE Left(Return(z.names[1]),
                    (written \cup Extracted(z.names, Len(z.names) + 1))
                       \ {ZipName})

--------------------------------------------------------------------------
(* Input files and archives *)

CoercedColumns == DOMAIN transformations

\* The columns of an input file: those of the coercion table and one more
FileColumns == CoercedColumns \cup {"Commune"}

Alphabet == {"0", "1", ".", ",", "a"}

DateTexts ==
  {<<"0", "5", "/", "0", "3", "/", "2", "0", "2", "3">>,
   <<"5", "/", "3", "/", "2", "0", "2", "3">>,
   <<"2", "9", "/", "0", "2", "/", "2", "0", "2", "4">>,
   <<"3", "1", "/", "0", "2", "/", "2", "0", "2", "3">>,
   <<"0", "5", "/", "0", "3", "/", "2", "3">>}

SampleTexts ==
  {<<>>, <<"1">>, <<"1", ".", "1">>, <<"1", ",", "1">>, <<"1", ".", "0">>,
   <<"a">>}

Texts == SeqsUpTo(Alphabet, MaxLen) \cup SampleTexts \cup DateTexts

\* A well-formed value for a column
Nominal(col) ==
  IF col \notin CoercedColumns THEN <<"a">>
  ELSE CASE transformations[col] = "int" -> <<"1">>
         [] transformations[col] = "float" -> <<"1", ".", "1">>
         [] transformations[col] = "date" ->
              <<"0", "5", "/", "0", "3", "/", "2", "0", "2", "3">>
         [] OTHER -> <<"0", "1">>

\* The file with the given columns and n rows, nominal except for the
\* text v in row r of column c
Table(columns, n, r, c, v) ==
  [col \in columns |->
     [i \in 1..n |-> IF i = r /\ col = c THEN v ELSE Nominal(col)]]

NoTable == [col \in {} |-> <<>>]

\* The files load_and_transform is run on: of up to MaxRows rows, one cell
\* of which holds any text; with every column, or lacking one column of
\* the coercion table
IsInputFile(table) ==
  \E n \in 0..MaxRows, c \in FileColumns, v \in Texts,
     m \in CoercedColumns \cup {"none"} :
     \E r \in (IF n = 0 THEN {0} ELSE 1..n) :
        /\ c # m
        /\ m # "none" => v \in SampleTexts
        /\ table = Table(FileColumns \ {m}, n, r, c, v)

SampleTables ==
  {Table(FileColumns, 1, 1, "Commune", <<>>),
   Table(FileColumns, 1, 1, "Valeur fonciere", <<"1", ",", "1">>),
   Table(FileColumns, 1, 1, "Nombre de lots", <<"1", ".", "1">>),
   Table(FileColumns, 1, 1, "Date mutation", <<"a">>),
   Table(FileColumns \ {"Surface terrain"}, 1, 1, "Commune", <<"a">>),
   Table(FileColumns \ {"No disposition"}, 1, 1, "Section", <<>>)}

EntryNames == {"valeursfoncieres.txt", "notice.txt"}

Archive(ok, names, k, table) ==
  [valid |-> ok, names |-> names, fail_at |-> k, content |-> table]

NominalTable == Table(FileColumns, 1, 1, "Commune", <<"a">>)

\* Downloaded archives: unreadable; readable and extracting in full, with
\* each sample file as first entry; readable and failing at some entry
Archives ==
  {Archive(FALSE, <<>>, 0, NominalTable)}
    \cup {Archive(TRUE, names, 0, table) :
            names \in SeqsUpTo(EntryNames, MaxEntries), table \in SampleTables}
    \cup UNION {{Archive(TRUE, names, k, NominalTable) : k \in 1..Len(names)} :
                names \in SeqsUpTo(EntryNames, MaxEntries)}

DownloadResponses == [status_code : {200}, body : Archives] \cup {ErrorResponse}

NoResponse == [status_code |-> 0, body |-> <<>>]

--------------------------------------------------------------------------
(* main *)

Stages ==
  <<"search_dvf_dataset", "get_resource_url", "download_and_extract",
    "load_and_transform", "export_to_parquet">>

OutputName == "output_path"

ErrorLine(e) == <<"Error", e>>
CompleteLine == <<"Ingestion complete", "">>

\* Call with the exception of the stage caught on the spot
MutCall(stage, r, next) ==
  /\ started' = Append(started, stage)
  /\ returned' = IF r.exc = NoExc THEN Append(returned, stage) ELSE returned
  /\ pc' = next
  /\ exc' = IF r.exc = NoExc THEN exc ELSE r.exc

\* A stage call inside the try block: the call is made, and either it
\* returns and main goes on to `next`, or it raises and control passes to
\* the except clause
Call(stage, r, next) ==
  /\ started' = Append(started, stage)
  /\ IF r.exc = NoExc
     THEN /\ returned' = Append(returned, stage)
          /\ pc' = next
          /\ exc' = exc
     ELSE /\ returned' = returned
          /\ pc' = "except"
          /\ exc' = r.exc

\* dataset_id = search_dvf_dataset(), the search request answered by resp
Search(resp) ==
  /\ pc = "search_dvf_dataset"
  /\ LET r == search_dvf_dataset(resp)
     IN /\ Call("search_dvf_dataset", r, "get_resource_url")
        /\ dataset_id' = IF r.exc = NoExc THEN r.value ELSE dataset_id
  /\ UNCHANGED <<year, url, txt_path, df, stdout, files, response, csv, loaded>>

\* url = get_resource_url(dataset_id, args.year), the dataset request
\* answered by resp
GetResourceUrl(resp) ==
  /\ pc = "get_resource_url"
  /\ LET r == get_resource_url(resp, year)
     IN /\ Call("get_resource_url", r, "download_and_extract")
        /\ url' = IF r.exc = NoExc THEN r.value ELSE url
  /\ UNCHANGED <<year, dataset_id, txt_path, df, stdout, files, response, csv,
                 loaded>>

\* txt_path = download_and_extract(url, raw_dir), the download answered by
\* resp; the extracted entry 0 holds the content of the archive
Download(resp) ==
  /\ pc = "download_and_extract"
  /\ LET r == download_and_extract(resp, files)
     IN /\ Call("download_and_extract", r, "load_and_transform")
        /\ files' = r.files
        /\ txt_path' = IF r.exc = NoExc THEN r.value ELSE txt_path
        /\ csv' = IF r.exc = NoExc THEN resp.body.content ELSE csv
  /\ UNCHANGED <<year, dataset_id, url, df, stdout, response, loaded>>

\* The three requests of a run, answered by the network
CallSearch == \E resp \in CatalogResponses : Search(resp)

CallGetResourceUrl == \E resp \in DatasetResponses : GetResourceUrl(resp)

CallDownload == \E resp \in DownloadResponses : Download(resp)

\* The same stages with the request answered by a given (mocked) response
MockedSearch == Search(response)

MockedGetResourceUrl == GetResourceUrl(response)

MockedDownload == Download(response)

\* df = load_and_transform(txt_path)
CallLoad ==
  /\ pc = "load_and_transform"
  /\ LET r == load_and_transform(csv)
     IN /\ Call("load_and_transform", r, "export_to_parquet")
        /\ loaded' = SubSeq(ColumnOrder, 1, r.loaded)
        /\ df' = IF r.exc = NoExc THEN r.value ELSE df
  /\ UNCHANGED <<year, dataset_id, url, txt_path, stdout, files, response, csv>>

\* export_to_parquet(df, output_path): df.to_parquet writes the file, or
\* raises having written nothing or a partial file
CallExport ==
  /\ pc = "export_to_parquet"
  /\ \E ok \in BOOLEAN, partial \in BOOLEAN :
       /\ Call("export_to_parquet",
               IF ok THEN Return("None") ELSE Raise("OSError"), "complete")
       /\ files' = IF ok \/ partial THEN files \cup {OutputName} ELSE files
  /\ UNCHANGED <<year, dataset_id, url, txt_path, df, stdout, response, csv,
                 loaded>>

\* print("Ingestion complete"): the end of the try block
PrintComplete ==
  /\ pc = "complete"
  /\ stdout' = Append(stdout, CompleteLine)
  /\ pc' = "done"
  /\ UNCHANGED <<year, dataset_id, url, txt_path, df, exc, started, returned,
                 files, response, csv, loaded>>

\* Except without the raise
MutExcept ==
  /\ pc = "except"
  /\ stdout' = Append(stdout, ErrorLine(exc))
  /\ pc' = "done"
  /\ UNCHANGED <<year, dataset_id, url, txt_path, df, exc, started, returned,
                 files, response, csv, loaded>>

\* except Exception as e: print the error line, then raise
Except ==
  /\ pc = "except"
  /\ stdout' = Append(stdout, ErrorLine(exc))
  /\ pc' = "failed"
  /\ UNCHANGED <<year, dataset_id, url, txt_path, df, exc, started, returned,
                 files, response, csv, loaded>>

\* main() at the top of the try block
Start ==
  /\ pc = "search_dvf_dataset"
  /\ year \in Years
  /\ dataset_id = Unbound
  /\ url = Unbound
  /\ txt_path = Unbound
  /\ df = NoTable
  /\ exc = NoExc
  /\ stdout = <<>>
  /\ started = <<>>
  /\ returned = <<>>
  /\ files \in {{}, {ZipName}}
  /\ csv = NoTable
  /\ loaded = <<>>

Init == Start /\ response = NoResponse

Next ==
  \/ CallSearch
  \/ CallGetResourceUrl
  \/ CallDownload
  \/ CallLoad
  \/ CallExport
  \/ PrintComplete
  \/ Except

Spec == Init /\ [][Next]_vars

\* A run whose search request is answered by a given response
InitSearch == Start /\ response \in CatalogResponses

NextSearch ==
  \/ MockedSearch
  \/ Except

SpecSearch == InitSearch /\ [][NextSearch]_vars

\* main() at the call of get_resource_url, the dataset request answered by
\* a given response
InitResource ==
  /\ pc = "get_resource_url"
  /\ year \in Years
  /\ dataset_id = "id1"
  /\ url = Unbound
  /\ txt_path = Unbound
  /\ df = NoTable
  /\ exc = NoExc
  /\ stdout = <<>>
  /\ started = SubSeq(Stages, 1, 1)
  /\ returned = SubSeq(Stages, 1, 1)
  /\ files = {}
  /\ response \in DatasetResponses
  /\ csv = NoTable
  /\ loaded = <<>>

NextResource ==
  \/ MockedGetResourceUrl
  \/ Except

SpecResource == InitResource /\ [][NextResource]_vars

\* main() at the call of download_and_extract, the download answered by a
\* given response
InitDownload ==
  /\ pc = "download_and_extract"
  /\ year \in Years
  /\ dataset_id = "id1"
  /\ url \in ResourceUrls
  /\ txt_path = Unbound
  /\ df = NoTable
  /\ exc = NoExc
  /\ stdout = <<>>
  /\ started = SubSeq(Stages, 1, 2)
  /\ returned = SubSeq(Stages, 1, 2)
  /\ files \in {{}, {ZipName}}
  /\ response \in DownloadResponses
  /\ csv = NoTable
  /\ loaded = <<>>

NextDownload ==
  \/ MockedDownload
  \/ Except

SpecDownload == InitDownload /\ [][NextDownload]_vars

\* main() at the call of load_and_transform, for each extracted file
InitTransform ==
  /\ pc = "load_and_transform"
  /\ year = 2023
  /\ dataset_id = "id1"
  /\ url = "u1"
  /\ txt_path = "valeursfoncieres.txt"
  /\ df = NoTable
  /\ exc = NoExc
  /\ stdout = <<>>
  /\ started = SubSeq(Stages, 1, 3)
  /\ returned = SubSeq(Stages, 1, 3)
  /\ files = {"valeursfoncieres.txt"}
  /\ IsInputFile(csv)
  /\ response = NoResponse
  /\ loaded = <<>>

NextTransform ==
  \/ CallLoad
  \/ CallExport
  \/ PrintComplete
  \/ Except

SpecTransform == InitTransform /\ [][NextTransform]_vars

--------------------------------------------------------------------------
(* Properties *)

Range(seq) == {seq[i] : i \in 1..Len(seq)}

\* The stage has been called and has returned normally
Returned(stage) == stage \in Range(returned)

\* The smallest element of a non-empty set of indices
First(I) == CHOOSE i \in I : \A j \in I : i <= j

\* C1: in every run of main the stages are called in the fixed order
\* search_dvf_dataset, get_resource_url, download_and_extract,
\* load_and_transform, export_to_parquet, each at most once; a stage is
\* called only when every earlier stage has returned normally, and no
\* stage is called once an exception has been raised.
C1_StagesInOrder ==
  [][started' # started =>
       /\ exc = NoExc
       /\ Len(started) < Len(Stages)
       /\ started = SubSeq(Stages, 1, Len(started))
       /\ returned = started
       /\ started' = Append(started, Stages[Len(started) + 1])]_vars

C1_Witness == pc = "done" /\ started = Stages /\ returned = Stages

\* C2: an exception raised by a stage is the one the except clause of main
\* sees: main prints exactly one error line, carrying that exception, and
\* ends as a failure with the exception still propagating.  The
\* "Ingestion complete" line is printed only when all five stages have
\* returned, and never together with the error line.
C2_ErrorsReachTopLevel ==
  /\ [](/\ exc # NoExc => pc \in {"except", "failed"}
        /\ pc = "except" => stdout = <<>>
        /\ pc = "failed" => exc # NoExc /\ stdout = <<ErrorLine(exc)>>
        /\ CompleteLine \in Range(stdout) =>
             /\ returned = Stages
             /\ exc = NoExc
             /\ stdout = <<CompleteLine>>
        /\ pc = "done" => stdout = <<CompleteLine>>)
  /\ [][exc # NoExc => exc' = exc /\ returned' = returned]_vars

C2_Witness ==
  /\ pc = "failed"
  /\ started = Stages
  /\ exc = "OSError"
  /\ stdout = <<ErrorLine("OSError")>>

\* C3: when the search request succeeds, search_dvf_dataset returns the id
\* of the first entry of the page whose title equals the target literal,
\* and raises "DVF dataset not found", returning nothing, when the page
\* has no such entry or the response has no "data" list.
C3_ExactTitleMatch ==
  (started = <<"search_dvf_dataset">> /\ response.status_code = 200) =>
     LET page == IF "data" \in DOMAIN response.body
                 THEN response.body.data ELSE <<>>
         exact == {i \in 1..Len(page) : page[i].title = TargetTitle}
     IN IF exact = {}
        THEN /\ exc = "ValueError: DVF dataset not found"
             /\ dataset_id = Unbound
        ELSE /\ exc = NoExc
             /\ Returned("search_dvf_dataset")
             /\ dataset_id = page[First(exact)].id

C3_Witness ==
  /\ started = <<"search_dvf_dataset">>
  /\ response.status_code = 200
  /\ "data" \in DOMAIN response.body
  /\ Len(response.body.data) = 2
  /\ response.body.data[1].title = "Demandes de valeurs foncieres"
  /\ response.body.data[1].id = "id1"
  /\ response.body.data[2].title = TargetTitle
  /\ dataset_id = "id2"

\* C4: when the dataset request succeeds, get_resource_url returns the url
\* of the first resource whose title contains the year in decimal and
\* whose format is "txt.zip"; a resource with only one of the two, or
\* without a title or a format, is never selected; with no such resource
\* it raises "No data found for year" and returns nothing.
C4_FirstYearAndFormat ==
  (started = SubSeq(Stages, 1, 2) /\ response.status_code = 200) =>
     LET list == IF "resources" \in DOMAIN response.body
                 THEN response.body.resources ELSE <<>>
         Both(r) == /\ "title" \in DOMAIN r
                    /\ "format" \in DOMAIN r
                    /\ Contains(r.title, str(year))
                    /\ r.format = "txt.zip"
         both == {i \in 1..Len(list) : Both(list[i])}
     IN IF both = {}
        THEN /\ exc = "ValueError: No data found for year"
             /\ url = Unbound
        ELSE /\ exc = NoExc
             /\ Returned("get_resource_url")
             /\ url = list[First(both)].url

C4_Witness ==
  /\ started = SubSeq(Stages, 1, 2)
  /\ response.status_code = 200
  /\ "resources" \in DOMAIN response.body
  /\ Len(response.body.resources) = 2
  /\ year = 2023
  /\ response.body.resources[1] =
       [title |-> <<"v", "f", "2", "0", "2", "3", ".", "t", "x", "t">>,
        format |-> "csv", url |-> "u1"]
  /\ response.body.resources[2] =
       [title |-> <<"v", "f", "2", "0", "2", "3", ".", "t", "x", "t">>,
        format |-> "txt.zip", url |-> "u2"]
  /\ url = "u2"

\* C8: when download_and_extract returns, temp_download.zip is gone and
\* the path returned is that of entry 0 of the archive; when opening the
\* archive, taking entry 0 or extracting raises, temp_download.zip is
\* still on disk.
C8_ArchiveRemovedAfterExtraction ==
  started = SubSeq(Stages, 1, 3) =>
     /\ Returned("download_and_extract") =>
          /\ ZipName \notin files
          /\ txt_path = response.body.names[1]
          /\ txt_path \in files
     /\ exc \in {"BadZipFile", "IndexError", "OSError"} => ZipName \in files

C8_Witness ==
  /\ started = SubSeq(Stages, 1, 3)
  /\ Returned("download_and_extract")
  /\ Len(response.body.names) = 2
  /\ response.body.names[1] # response.body.names[2]
  /\ ZipName \notin files

C8_LeakWitness ==
  /\ started = SubSeq(Stages, 1, 3)
  /\ exc = "OSError"
  /\ response.body.fail_at = 2
  /\ files = {ZipName, response.body.names[1]}

\* C5: when load_and_transform returns, no cell of the table is the empty
\* string, and every cell that was an empty field of the file is missing,
\* in the columns of the coercion table and in the others alike.
C5_EmptyIsNull ==
  Returned("load_and_transform") =>
     /\ DOMAIN df = DOMAIN csv
     /\ \A c \in DOMAIN df :
          /\ Len(df[c]) = Len(csv[c])
          /\ \A i \in 1..Len(df[c]) :
               /\ df[c][i] # Text(<<>>)
               /\ csv[c][i] = <<>> => df[c][i] = NA

C5_Witness ==
  /\ Returned("load_and_transform")
  /\ Len(csv["Commune"]) = 1
  /\ csv["Commune"][1] = <<>>
  /\ df["Commune"][1] = NA

\* C6: for a file that has every column of the coercion table,
\* load_and_transform returns whatever text the cells hold; a text that is
\* no value of the column's type is missing in the result.
C6_NeverRaisesOnValue ==
  (Len(started) >= 4 /\ CoercedColumns \subseteq DOMAIN csv) =>
     /\ Returned("load_and_transform")
     /\ \A c \in CoercedColumns : \A i \in 1..Len(csv[c]) :
          df[c][i].kind \in
            CASE transformations[c] = "int" -> {"Int64", "NA"}
              [] transformations[c] = "float" -> {"float", "NA"}
              [] transformations[c] = "date" -> {"date", "NA"}
              [] OTHER -> {"str", "NA"}

\* C7 as stated: the coercion table has seventeen columns.
C7_SeventeenColumns ==
  Returned("load_and_transform") =>
     /\ Len(loaded) = 17
     /\ Cardinality(CoercedColumns) = 17

\* C7: the coercion table has exactly fifteen distinct columns, each mapped
\* to one of the four semantic types int, float, date and str; the loop
\* has a branch for each of the four and, when load_and_transform returns,
\* has assigned each of the fifteen columns once.
C7_FifteenColumns ==
  /\ Cardinality(CoercedColumns) = 15
  /\ \A c \in CoercedColumns :
       transformations[c] \in {"int", "float", "date", "str"}
  /\ {transformations[c] : c \in CoercedColumns} = HandledTypes
  /\ Returned("load_and_transform") =>
       /\ Len(loaded) = 15
       /\ Range(loaded) = CoercedColumns

C7_Witness ==
  /\ Returned("load_and_transform")
  /\ Len(loaded) = 15
  /\ Len(csv["Commune"]) = 1

\* The text with every comma turned into a point
CommaToPoint(t) == [i \in 1..Len(t) |-> IF t[i] = "," THEN "." ELSE t[i]]

HasComma(t) == \E i \in 1..Len(t) : t[i] = ","

PointNumber(t) ==
  IF t = <<"1", ".", "1">> THEN Float(11, 1)
  ELSE IF t = <<"1", ".", "0">> THEN Float(1, 0)
  ELSE IF t = <<"0", ".", "1">> THEN Float(1, 1)
  ELSE IF t = <<".", "1">> THEN Float(1, 1)
  ELSE NA

\* C9: in column "Valeur fonciere" a value written with a decimal comma
\* gives the number of the same value written with a decimal point; in
\* the other float columns a value with a comma is missing in the result.
C9_DecimalComma ==
  Returned("load_and_transform") =>
     /\ \A i \in 1..Len(csv["Valeur fonciere"]) :
          LET t == csv["Valeur fonciere"][i]
              v == df["Valeur fonciere"][i]
          IN /\ v = ParseNumber(CommaToPoint(t))
             /\ PointNumber(CommaToPoint(t)) # NA =>
                  v = PointNumber(CommaToPoint(t))
     /\ \A c \in {"Surface reelle bati", "Surface terrain"} :
          \A i \in 1..Len(csv[c]) :
             HasComma(csv[c][i]) => df[c][i] = NA

C9_Witness ==
  /\ Returned("load_and_transform")
  /\ Len(csv["Valeur fonciere"]) = 1
  /\ csv["Valeur fonciere"][1] = <<"1", ",", "1">>
  /\ df["Valeur fonciere"][1] = Float(11, 1)

\* The columns of the coercion table the file lacks, by place in the table
Lacking == {i \in 1..Len(ColumnOrder) : ColumnOrder[i] \notin DOMAIN csv}

\* C10: when the file lacks a column of the coercion table,
\* load_and_transform raises, at the latest with a KeyError when the loop
\* reaches the first such column; export_to_parquet is not called and
\* nothing is written to the output path.
C10_MissingColumnRaises ==
  (Len(started) >= 4 /\ Lacking # {}) =>
     /\ ~Returned("load_and_transform")
     /\ exc # NoExc
     /\ pc \in {"except", "failed"}
     /\ Len(loaded) < First(Lacking)
     /\ (exc = "KeyError" <=> Len(loaded) = First(Lacking) - 1)
     /\ "export_to_parquet" \notin Range(started)
     /\ OutputName \notin files

C10_Witness ==
  /\ pc = "failed"
  /\ exc = "KeyError"
  /\ "Surface terrain" \notin DOMAIN csv
  /\ Len(loaded) = 14
  /\ OutputName \notin files

====
